---- MODULE Spec2Model ----
(***************************************************************************)
(* llmstruct: extraction of schema-conforming JSON from free text.         *)
(*                                                                         *)
(* src/src/llmstruct/core.py holds two functions:                          *)
(*   _extract_balanced_segment  the bracket/quote/escape walker            *)
(*   extract_json_from_text     the left-to-right scan that decodes and    *)
(*                              validates each balanced candidate          *)
(* A text is a sequence of one-character strings.  json.loads and          *)
(* model_type.model_validate are library calls; they are modelled by what  *)
(* they do on the alphabet of the model (Decode, ModelValidate).  The      *)
(* module needs Python 3.11 (StrEnum, line 3), where json.loads gives up   *)
(* with ValueError on an integer literal of more than 4300 digits.         *)
(***************************************************************************)
EXTENDS Integers, Sequences, FiniteSets, TLC

\* ------------------------------------------------------------------ inputs

\* The number of fragments a text is built from.
MaxFrags == 3

LB == "{"
RB == "}"
LS == "["
RS == "]"
QT == "\""
BS == "\\"
CM == ","
CL == ":"
D1 == "1"
D0 == "0"
KK == "k"
SP == " "

\* The pieces texts are concatenated from: every character the segment
\* walker treats specially, and the JSON snippets the scan meets in a
\* model's answer (an empty object, an object with the field k, element
\* lists, the two halves of an object with a one-key string, an escaped
\* quote, an object opened up to the value of k).
Fragments ==
    { <<LB>>, <<RB>>, <<LS>>, <<RS>>, <<QT>>, <<BS>>, <<SP>>,
      <<LB, RB>>,
      <<LB, QT, KK, QT, CL, D1, RB>>,
      <<LB, QT, KK, QT, CL, D1, RB, CM, LB, RB>>,
      <<D1, CM, LB, RB>>,
      <<LB, QT>>,
      <<QT, CL, D1, RB>>,
      <<BS, QT>>,
      <<LB, QT, KK, QT, CL>> }

RECURSIVE TextsOf(_)
TextsOf(n) ==
    IF n = 0 THEN { <<>> }
    ELSE LET shorter == TextsOf(n - 1)
         IN shorter \cup { t \o f : t \in shorter, f \in Fragments }

Texts == TextsOf(MaxFrags)

\* sys.int_info.default_max_str_digits: the longest integer literal that
\* int(), and so json.loads, converts.
MaxStrDigits == 4300

DigitRun(n) == [m \in 1..n |-> D1]

\* Texts with an integer literal one digit over the limit: [1][11...1][{}],
\* {[11...1]} and "[11...1].
LongTexts ==
    { <<LS, D1, RS, LS>> \o DigitRun(MaxStrDigits + 1) \o <<RS, LS, LB, RB, RS>>,
      <<LB, LS>> \o DigitRun(MaxStrDigits + 1) \o <<RS, RB>>,
      <<QT, LS>> \o DigitRun(MaxStrDigits + 1) \o <<RS>> }

\* The two pydantic models of the scan's inputs, as in User (core.py 180-183):
\* an int field that is required (id) or that has a default (is_active = True).
\* Unknown keys are ignored, as pydantic does by default.  An int is written
\* by its decimal digits.
ModelRequired == [name |-> "Required", required |-> TRUE,  default |-> <<D0>>]
ModelDefaulted == [name |-> "Defaulted", required |-> FALSE, default |-> <<D0>>]
ModelTypes == { ModelRequired, ModelDefaulted }

SUCCESS == "success"
FAILURE == "failure"

\* ------------------------------------------------------ segment extractor

\* The walker's locals after line 49.
SegInitState == [balance |-> 0, in_string |-> FALSE, escape_next_char |-> FALSE]

\* Mutant of SegStep: the balance is adjusted inside strings too.
SegStepIgnoringStrings(s, char, open_char, close_char) ==
    IF s.escape_next_char
    THEN [st |-> [s EXCEPT !.escape_next_char = FALSE], ret |-> FALSE]
    ELSE IF char = BS
    THEN [st |-> [s EXCEPT !.escape_next_char = TRUE], ret |-> FALSE]
    ELSE LET ins == IF char = QT THEN ~s.in_string ELSE s.in_string
             bal == IF char = open_char THEN s.balance + 1
                    ELSE IF char = close_char THEN s.balance - 1
                    ELSE s.balance
         IN [st |-> [balance |-> bal, in_string |-> ins, escape_next_char |-> FALSE],
             ret |-> (bal = 0)]

\* One iteration of the for loop (lines 51-74) on char: the new locals, and
\* whether the iteration reaches line 69 with balance 0 (the return).
SegStep(s, char, open_char, close_char) ==
    IF s.escape_next_char
    THEN [st |-> [s EXCEPT !.escape_next_char = FALSE], ret |-> FALSE]
    ELSE IF char = BS
    THEN [st |-> [s EXCEPT !.escape_next_char = TRUE], ret |-> FALSE]
    ELSE LET ins == IF char = QT THEN ~s.in_string ELSE s.in_string
             bal == IF ins THEN s.balance
                    ELSE IF char = open_char THEN s.balance + 1
                    ELSE IF char = close_char THEN s.balance - 1
                    ELSE s.balance
         IN [st |-> [balance |-> bal, in_string |-> ins, escape_next_char |-> FALSE],
             ret |-> (bal = 0)]

\* The iterations lo..hi of the for loop, in order, from locals s: the
\* locals they end with and the index at which the loop returns, 0 when it
\* does not.  The range is run as two halves, one after the other.
RECURSIVE SegRun(_, _, _, _, _, _)
SegRun(t, lo, hi, s, open_char, close_char) ==
    IF lo > hi THEN [st |-> s, at |-> 0]
    ELSE IF lo = hi
    THEN LET r == SegStep(s, t[lo], open_char, close_char)
         IN [st |-> r.st, at |-> IF r.ret THEN lo ELSE 0]
    ELSE LET mid == (lo + hi) \div 2
             left == SegRun(t, lo, mid, s, open_char, close_char)
         IN IF left.at # 0 THEN left
            ELSE SegRun(t, mid + 1, hi, left.st, open_char, close_char)

\* The for loop of lines 51-74 over the whole text: the index at which it
\* returns, or 0 when the text ends first.
SegWalk(t, open_char, close_char) ==
    SegRun(t, 1, Len(t), SegInitState, open_char, close_char).at

None == [found |-> FALSE, seg |-> <<>>]
Some(seg) == [found |-> TRUE, seg |-> seg]

\* _extract_balanced_segment(text_segment, open_char=, close_char=).
ExtractBalancedSegment(text_segment, open_char, close_char) ==
    IF text_segment = <<>> \/ text_segment[1] # open_char THEN None
    ELSE LET e == SegWalk(text_segment, open_char, close_char)
         IN IF e = 0 THEN None ELSE Some(SubSeq(text_segment, 1, e))

\* ------------------------------------------------------------ json.loads

\* What a scanning function ends with: a value and the position behind it,
\* or the exception it raises.
JRaise(exc) == [ok |-> FALSE, exc |-> exc, pos |-> 0, val |-> [kind |-> "none", v |-> <<>>]]
JFail == JRaise("JSONDecodeError")
JOk(val, pos) == [ok |-> TRUE, exc |-> "none", pos |-> pos, val |-> val]

\* The escapes of json.decoder.BACKSLASH that the alphabet can spell.
EscapeChars == { QT, BS }

RECURSIVE SkipWs(_, _)
SkipWs(t, p) == IF p <= Len(t) /\ t[p] = SP THEN SkipWs(t, p + 1) ELSE p

\* py_scanstring from the character after the opening quote.
RECURSIVE ScanString(_, _, _)
ScanString(t, p, acc) ==
    IF p > Len(t) THEN JFail
    ELSE IF t[p] = QT THEN JOk([kind |-> "str", v |-> acc], p + 1)
    ELSE IF t[p] = BS
    THEN IF p + 1 <= Len(t) /\ t[p + 1] \in EscapeChars
         THEN ScanString(t, p + 2, Append(acc, t[p + 1]))
         ELSE JFail
    ELSE ScanString(t, p + 1, Append(acc, t[p]))

\* The position behind the longest run of digits from p.
DigitsEnd(t, p) ==
    CHOOSE q \in p..(Len(t) + 1) :
        /\ q = Len(t) + 1 \/ t[q] # D1
        /\ \A r \in p..(q - 1) : t[r] = D1

\* NUMBER_RE on the digit of the alphabet, then int() of the match: int()
\* raises ValueError on more than MaxStrDigits digits.
ScanNumber(t, p) ==
    LET q == DigitsEnd(t, p)
    IN IF q - p > MaxStrDigits THEN JRaise("ValueError")
       ELSE JOk([kind |-> "num", v |-> SubSeq(t, p, q - 1)], q)

RECURSIVE ScanOnce(_, _)
RECURSIVE ObjectPairs(_, _, _)
RECURSIVE ArrayItems(_, _, _)

\* JSONObject from the character after the brace.
JSONObject(t, p) ==
    LET q == SkipWs(t, p)
    IN IF q > Len(t) THEN JFail
       ELSE IF t[q] = RB THEN JOk([kind |-> "obj", v |-> <<>>], q + 1)
       ELSE IF t[q] # QT THEN JFail
       ELSE ObjectPairs(t, q + 1, <<>>)

ObjectPairs(t, p, pairs) ==
    LET k == ScanString(t, p, <<>>)
    IN IF ~k.ok THEN k
       ELSE LET c == SkipWs(t, k.pos)
            IN IF c > Len(t) \/ t[c] # CL THEN JFail
               ELSE LET v == ScanOnce(t, SkipWs(t, c + 1))
                    IN IF ~v.ok THEN v
                       ELSE LET e == SkipWs(t, v.pos)
                                ps == Append(pairs, [key |-> k.val.v, value |-> v.val])
                            IN IF e > Len(t) THEN JFail
                               ELSE IF t[e] = RB THEN JOk([kind |-> "obj", v |-> ps], e + 1)
                               ELSE IF t[e] # CM THEN JFail
                               ELSE LET n == SkipWs(t, e + 1)
                                    IN IF n > Len(t) \/ t[n] # QT THEN JFail
                                       ELSE ObjectPairs(t, n + 1, ps)

\* JSONArray from the character after the bracket.
JSONArray(t, p) ==
    LET q == SkipWs(t, p)
    IN IF q <= Len(t) /\ t[q] = RS THEN JOk([kind |-> "arr", v |-> <<>>], q + 1)
       ELSE ArrayItems(t, q, <<>>)

ArrayItems(t, p, items) ==
    LET v == ScanOnce(t, p)
    IN IF ~v.ok THEN v
       ELSE LET e == SkipWs(t, v.pos)
                is == Append(items, v.val)
            IN IF e > Len(t) THEN JFail
               ELSE IF t[e] = RS THEN JOk([kind |-> "arr", v |-> is], e + 1)
               ELSE IF t[e] # CM THEN JFail
               ELSE ArrayItems(t, SkipWs(t, e + 1), is)

\* scanner.scan_once at p.
ScanOnce(t, p) ==
    IF p > Len(t) THEN JFail
    ELSE IF t[p] = QT THEN ScanString(t, p + 1, <<>>)
    ELSE IF t[p] = LB THEN JSONObject(t, p + 1)
    ELSE IF t[p] = LS THEN JSONArray(t, p + 1)
    ELSE IF t[p] = D1 THEN ScanNumber(t, p)
    ELSE JFail

\* json.loads(s): one value between optional whitespace, nothing after it
\* (JSONDecodeError otherwise); what the scan of the value raises is raised.
Decode(s) ==
    LET r == ScanOnce(s, SkipWs(s, 1))
    IN IF ~r.ok THEN r
       ELSE IF SkipWs(s, r.pos) = Len(s) + 1 THEN r ELSE JFail

\* ------------------------------------------------- model_type.model_validate

HasKey(pairs, key) == \E n \in 1..Len(pairs) : pairs[n].key = key

\* A dict built from pairs keeps the last value of a repeated key.
LastValue(pairs, key) ==
    pairs[CHOOSE n \in 1..Len(pairs) :
              /\ pairs[n].key = key
              /\ \A m \in (n + 1)..Len(pairs) : pairs[m].key # key].value

VFail == [ok |-> FALSE, inst |-> [k |-> <<>>]]

\* model_type.model_validate(obj) for a decoded JSON object: the int field k
\* takes a JSON number (every other value kind the texts can spell for it,
\* an object, an array or a string without digits, is no int); a missing k
\* takes the default when the field has one.  ok = FALSE is ValidationError.
ModelValidate(model_type, obj) ==
    IF HasKey(obj.v, <<KK>>)
    THEN LET x == LastValue(obj.v, <<KK>>)
         IN IF x.kind = "num" THEN [ok |-> TRUE, inst |-> [k |-> x.v]] ELSE VFail
    ELSE IF model_type.required THEN VFail
    ELSE [ok |-> TRUE, inst |-> [k |-> model_type.default]]

\* ------------------------------------------------------ extraction engine

\* How the try body (lines 113-158) ends: it returns a Result, raises, or
\* falls through (pass).  objs is parsed_objects_list (or the one instance)
\* as it stands then, validated the number of model_validate calls made.
Returns(objs, validated) ==
    [kind |-> "return", exc |-> "none", objs |-> objs, validated |-> validated]
Raises(exc, objs, validated) ==
    [kind |-> "raise", exc |-> exc, objs |-> objs, validated |-> validated]
Passes == [kind |-> "pass", exc |-> "none", objs |-> <<>>, validated |-> 0]

\* Mutant of ValidateItems: an item that is no dict is skipped, not raised on.
RECURSIVE ValidateItemsSkippingNonDict(_, _, _, _)
ValidateItemsSkippingNonDict(items, n, model_type, parsed_objects_list) ==
    IF n > Len(items) THEN Returns(parsed_objects_list, Len(items))
    ELSE IF items[n].kind # "obj"
    THEN ValidateItemsSkippingNonDict(items, n + 1, model_type, parsed_objects_list)
    ELSE LET r == ModelValidate(model_type, items[n])
         IN IF ~r.ok THEN Raises("ValidationError", parsed_objects_list, n)
            ELSE ValidateItemsSkippingNonDict(items, n + 1, model_type,
                                              Append(parsed_objects_list, r.inst))

\* Mutant of ValidateItems: each instance is put at the front of the list.
RECURSIVE ValidateItemsPrepending(_, _, _, _)
ValidateItemsPrepending(items, n, model_type, parsed_objects_list) ==
    IF n > Len(items) THEN Returns(parsed_objects_list, Len(items))
    ELSE IF items[n].kind # "obj"
    THEN Raises("ValidationError", parsed_objects_list, n - 1)
    ELSE LET r == ModelValidate(model_type, items[n])
         IN IF ~r.ok THEN Raises("ValidationError", parsed_objects_list, n)
            ELSE ValidateItemsPrepending(items, n + 1, model_type,
                                         <<r.inst>> \o parsed_objects_list)

\* The loop over the items of a decoded list (lines 126-141), from item n.
RECURSIVE ValidateItems(_, _, _, _)
ValidateItems(items, n, model_type, parsed_objects_list) ==
    IF n > Len(items) THEN Returns(parsed_objects_list, Len(items))
    ELSE IF items[n].kind # "obj"
    THEN Raises("ValidationError", parsed_objects_list, n - 1)
    ELSE LET r == ModelValidate(model_type, items[n])
         IN IF ~r.ok THEN Raises("ValidationError", parsed_objects_list, n)
            ELSE ValidateItems(items, n + 1, model_type,
                               Append(parsed_objects_list, r.inst))

\* The try body for one candidate string.
TryCandidate(json_candidate_str, model_type) ==
    LET loaded == Decode(json_candidate_str)
    IN IF ~loaded.ok THEN Raises(loaded.exc, <<>>, 0)
       ELSE IF loaded.val.kind = "obj"
       THEN LET r == ModelValidate(model_type, loaded.val)
            IN IF r.ok THEN Returns(<<r.inst>>, 1)
               ELSE Raises("ValidationError", <<>>, 1)
       ELSE IF loaded.val.kind = "arr"
       THEN ValidateItems(loaded.val.v, 1, model_type, <<>>)
       ELSE Passes

\* The exceptions the two except clauses (lines 160-167) catch.
CaughtExceptions == { "JSONDecodeError", "ValidationError" }

\* Result(status=..., parsed_objects=...); parsed_objects defaults to ().
Result(st, objs) == [status |-> st, parsed_objects |-> objs]
NoResult == Result("none", <<>>)

VARIABLES
    text,                 \* the argument text
    model_type,           \* the argument model_type
    pc,                   \* "start", "loop", "done" (returned), "raised"
    i,                    \* the loop index of line 97, counted from 1
    result,               \* the Result returned
    exception,            \* the exception that left the function, or "none"
    parsed_objects_list,  \* the local of line 125, as last assigned
    n_segment,            \* calls of _extract_balanced_segment so far
    n_decode,             \* calls of json.loads so far
    n_validate,           \* calls of model_validate so far
    \* _extract_balanced_segment, run on its own
    text_segment, open_char, close_char,
    seg_pc,               \* "idle", "entry", "loop", "returned"
    j,                    \* the index of the for loop of line 51, from 1
    balance, in_string, escape_next_char,
    seg_ret               \* the value returned

engineVars == <<text, model_type, pc, i, result, exception, parsed_objects_list,
                n_segment, n_decode, n_validate>>
segVars == <<text_segment, open_char, close_char, seg_pc, j,
             balance, in_string, escape_next_char, seg_ret>>
vars == <<engineVars, segVars>>

\* Mutant of OpenChars: a double quote also starts a candidate.
OpenCharsWithQuote == { LB, LS, QT }

\* The closing character the scan pairs with an opening one (lines 102-110).
CloseOf(c) == IF c = LB THEN RB ELSE RS

\* The characters that start a candidate (lines 102 and 107).
OpenChars == { LB, LS }

\* Mutant of CandidateAt: the walker starts with the string and escape state
\* that the characters before n leave behind.
CandidateAtCarrying(t, n) ==
    IF t[n] \in OpenChars
    THEN LET s0 == [balance |-> 0,
                    in_string |-> Cardinality({ m \in 1..(n - 1) : t[m] = QT }) % 2 = 1,
                    escape_next_char |-> (n > 1 /\ t[n - 1] = BS)]
             e == SegRun(t, n, Len(t), s0, t[n], CloseOf(t[n])).at
         IN IF e = 0 THEN None ELSE Some(SubSeq(t, n, e))
    ELSE None

\* json_candidate_str of lines 99-110 at index n of t.
CandidateAt(t, n) ==
    IF t[n] \in OpenChars
    THEN ExtractBalancedSegment(SubSeq(t, n, Len(t)), t[n], CloseOf(t[n]))
    ELSE None

Candidate == CandidateAt(text, i)
Outcome == TryCandidate(Candidate.seg, model_type)

\* The for loop of lines 97-167 from index n of t, and line 175 behind it:
\* the Result returned, or the exception that leaves the function.
RECURSIVE ScanFrom(_, _, _)
ScanFrom(t, mt, n) ==
    IF n > Len(t) THEN [res |-> Result(FAILURE, <<>>), exc |-> "none"]
    ELSE LET c == CandidateAt(t, n)
         IN IF ~c.found THEN ScanFrom(t, mt, n + 1)
            ELSE LET o == TryCandidate(c.seg, mt)
                 IN IF o.kind = "return"
                    THEN [res |-> Result(SUCCESS, o.objs), exc |-> "none"]
                    ELSE IF o.kind = "raise" /\ o.exc \notin CaughtExceptions
                    THEN [res |-> NoResult, exc |-> o.exc]
                    ELSE ScanFrom(t, mt, n + 1)

\* extract_json_from_text(t, mt) as one call.
ExtractJsonFromText(t, mt) ==
    IF t = <<>> THEN [res |-> Result(FAILURE, <<>>), exc |-> "none"]
    ELSE ScanFrom(t, mt, 1)

EngineIdle ==
    /\ text = <<>> /\ model_type = ModelRequired /\ pc = "idle" /\ i = 0
    /\ result = NoResult /\ exception = "none" /\ parsed_objects_list = <<>>
    /\ n_segment = 0 /\ n_decode = 0 /\ n_validate = 0

SegIdle ==
    /\ text_segment = <<>> /\ open_char = LB /\ close_char = RB
    /\ seg_pc = "idle" /\ j = 0
    /\ balance = 0 /\ in_string = FALSE /\ escape_next_char = FALSE
    /\ seg_ret = None

Init ==
    /\ text \in Texts \cup LongTexts
    /\ model_type \in ModelTypes
    /\ pc = "start" /\ i = 0
    /\ result = NoResult /\ exception = "none" /\ parsed_objects_list = <<>>
    /\ n_segment = 0 /\ n_decode = 0 /\ n_validate = 0
    /\ SegIdle

\* Lines 94-95: the empty text.
ReturnEmpty ==
    /\ pc = "start" /\ text = <<>>
    /\ pc' = "done"
    /\ result' = Result(FAILURE, <<>>)
    /\ UNCHANGED <<text, model_type, i, exception, parsed_objects_list,
                   n_segment, n_decode, n_validate, segVars>>

\* Line 97: the loop is entered.
EnterLoop ==
    /\ pc = "start" /\ text # <<>>
    /\ pc' = "loop" /\ i' = 1
    /\ UNCHANGED <<text, model_type, result, exception, parsed_objects_list,
                   n_segment, n_decode, n_validate, segVars>>

InLoop == pc = "loop" /\ i <= Len(text)

\* Lines 98-112 for a character that opens nothing.
SkipChar ==
    /\ InLoop /\ text[i] \notin OpenChars
    /\ i' = i + 1
    /\ UNCHANGED <<text, model_type, pc, result, exception, parsed_objects_list,
                   n_segment, n_decode, n_validate, segVars>>

\* Lines 98-112: the segment from i is unbalanced, the candidate is None.
SkipUnbalanced ==
    /\ InLoop /\ text[i] \in OpenChars /\ ~Candidate.found
    /\ i' = i + 1
    /\ n_segment' = n_segment + 1
    /\ UNCHANGED <<text, model_type, pc, result, exception, parsed_objects_list,
                   n_decode, n_validate, segVars>>

\* The except clauses (lines 160-167): a caught exception ends the
\* iteration, any other one leaves the function.
AfterRaise(exc) ==
    IF exc \in CaughtExceptions
    THEN pc' = "loop" /\ i' = i + 1 /\ exception' = exception
    ELSE pc' = "raised" /\ i' = i /\ exception' = exc

\* Lines 113-114, 160-163: json.loads raises JSONDecodeError.
OnDecodeError ==
    /\ InLoop /\ Candidate.found
    /\ Outcome.kind = "raise" /\ Outcome.exc = "JSONDecodeError"
    /\ AfterRaise(Outcome.exc)
    /\ n_segment' = n_segment + 1
    /\ n_decode' = n_decode + 1
    /\ UNCHANGED <<text, model_type, result, parsed_objects_list,
                   n_validate, segVars>>

\* Lines 113-114: json.loads raises ValueError, which no except clause names.
OnDecodeValueError ==
    /\ InLoop /\ Candidate.found
    /\ Outcome.kind = "raise" /\ Outcome.exc = "ValueError"
    /\ AfterRaise(Outcome.exc)
    /\ n_segment' = n_segment + 1
    /\ n_decode' = n_decode + 1
    /\ UNCHANGED <<text, model_type, result, parsed_objects_list,
                   n_validate, segVars>>

\* Mutant of OnObjectInvalid: a validation failure ends the scan.
OnObjectInvalidFatal ==
    /\ InLoop /\ Candidate.found
    /\ Decode(Candidate.seg).ok /\ Decode(Candidate.seg).val.kind = "obj"
    /\ Outcome.kind = "raise" /\ Outcome.exc = "ValidationError"
    /\ pc' = "done"
    /\ result' = Result(FAILURE, <<>>)
    /\ n_segment' = n_segment + 1
    /\ n_decode' = n_decode + 1
    /\ n_validate' = n_validate + Outcome.validated
    /\ UNCHANGED <<text, model_type, i, exception, parsed_objects_list, segVars>>

\* Lines 116-118, 164-167: the decoded object does not validate.
OnObjectInvalid ==
    /\ InLoop /\ Candidate.found
    /\ Decode(Candidate.seg).ok /\ Decode(Candidate.seg).val.kind = "obj"
    /\ Outcome.kind = "raise" /\ Outcome.exc = "ValidationError"
    /\ AfterRaise(Outcome.exc)
    /\ n_segment' = n_segment + 1
    /\ n_decode' = n_decode + 1
    /\ n_validate' = n_validate + Outcome.validated
    /\ UNCHANGED <<text, model_type, result, parsed_objects_list, segVars>>

\* Lines 123-141, 164-167: an item of the decoded list is no dict, or does
\* not validate.
OnArrayInvalid ==
    /\ InLoop /\ Candidate.found
    /\ Decode(Candidate.seg).ok /\ Decode(Candidate.seg).val.kind = "arr"
    /\ Outcome.kind = "raise" /\ Outcome.exc = "ValidationError"
    /\ AfterRaise(Outcome.exc)
    /\ parsed_objects_list' = Outcome.objs
    /\ n_segment' = n_segment + 1
    /\ n_decode' = n_decode + 1
    /\ n_validate' = n_validate + Outcome.validated
    /\ UNCHANGED <<text, model_type, result, segVars>>

\* Mutant of ReturnObject: the Result is built with the wrong status.
ReturnObjectAsFailure ==
    /\ InLoop /\ Candidate.found
    /\ Decode(Candidate.seg).ok /\ Decode(Candidate.seg).val.kind = "obj"
    /\ Outcome.kind = "return"
    /\ pc' = "done"
    /\ result' = Result(FAILURE, Outcome.objs)
    /\ n_segment' = n_segment + 1
    /\ n_decode' = n_decode + 1
    /\ n_validate' = n_validate + Outcome.validated
    /\ UNCHANGED <<text, model_type, i, exception, parsed_objects_list, segVars>>

\* Lines 116-122: the decoded object validates.
ReturnObject ==
    /\ InLoop /\ Candidate.found
    /\ Decode(Candidate.seg).ok /\ Decode(Candidate.seg).val.kind = "obj"
    /\ Outcome.kind = "return"
    /\ pc' = "done"
    /\ result' = Result(SUCCESS, Outcome.objs)
    /\ n_segment' = n_segment + 1
    /\ n_decode' = n_decode + 1
    /\ n_validate' = n_validate + Outcome.validated
    /\ UNCHANGED <<text, model_type, i, exception, parsed_objects_list, segVars>>

\* Lines 123-153: every item of the decoded list validates.
ReturnArray ==
    /\ InLoop /\ Candidate.found
    /\ Decode(Candidate.seg).ok /\ Decode(Candidate.seg).val.kind = "arr"
    /\ Outcome.kind = "return"
    /\ pc' = "done"
    /\ result' = Result(SUCCESS, Outcome.objs)
    /\ parsed_objects_list' = Outcome.objs
    /\ n_segment' = n_segment + 1
    /\ n_decode' = n_decode + 1
    /\ n_validate' = n_validate + Outcome.validated
    /\ UNCHANGED <<text, model_type, i, exception, segVars>>

\* Lines 174-175: the loop ends.
ReturnExhausted ==
    /\ pc = "loop" /\ i > Len(text)
    /\ pc' = "done"
    /\ result' = Result(FAILURE, <<>>)
    /\ UNCHANGED <<text, model_type, i, exception, parsed_objects_list,
                   n_segment, n_decode, n_validate, segVars>>

\* A candidate opens with a brace or a bracket, so json.loads gives a dict,
\* a list or JSONDecodeError: no step takes the else of lines 154-158.
Next ==
    \/ ReturnEmpty
    \/ EnterLoop
    \/ SkipChar
    \/ SkipUnbalanced
    \/ OnDecodeError
    \/ OnDecodeValueError
    \/ OnObjectInvalid
    \/ OnArrayInvalid
    \/ ReturnObject
    \/ ReturnArray
    \/ ReturnExhausted

Spec == Init /\ [][Next]_vars

\* ------------------------------------- _extract_balanced_segment, stepwise

\* The same function run one loop iteration at a time, on every text and
\* both character pairs the scan calls it with.
InitSeg ==
    /\ text_segment \in Texts
    /\ open_char \in OpenChars
    /\ close_char = CloseOf(open_char)
    /\ seg_pc = "entry" /\ j = 0
    /\ balance = 0 /\ in_string = FALSE /\ escape_next_char = FALSE
    /\ seg_ret = None
    /\ EngineIdle

SegLocals ==
    [balance |-> balance, in_string |-> in_string,
     escape_next_char |-> escape_next_char]

SegSetLocals(s) ==
    /\ balance' = s.balance
    /\ in_string' = s.in_string
    /\ escape_next_char' = s.escape_next_char

SegIterating == seg_pc = "loop" /\ j <= Len(text_segment)
SegStepHere == SegStep(SegLocals, text_segment[j], open_char, close_char)

\* The negation of the test of line 44.
SegStartsOpen == text_segment # <<>> /\ text_segment[1] = open_char

\* Lines 44-45.
SegRejectStart ==
    /\ seg_pc = "entry"
    /\ ~SegStartsOpen
    /\ seg_pc' = "returned" /\ seg_ret' = None
    /\ UNCHANGED <<text_segment, open_char, close_char, j,
                   balance, in_string, escape_next_char, engineVars>>

\* Lines 47-51.
SegEnterLoop ==
    /\ seg_pc = "entry"
    /\ SegStartsOpen
    /\ seg_pc' = "loop" /\ j' = 1
    /\ SegSetLocals(SegInitState)
    /\ UNCHANGED <<text_segment, open_char, close_char, seg_ret, engineVars>>

\* Lines 52-54: the character after an escaping backslash.
SegEscapedChar ==
    /\ SegIterating /\ escape_next_char
    /\ SegSetLocals(SegStepHere.st)
    /\ j' = j + 1
    /\ UNCHANGED <<text_segment, open_char, close_char, seg_pc, seg_ret, engineVars>>

\* Lines 56-58: a backslash.
SegBackslash ==
    /\ SegIterating /\ ~escape_next_char /\ text_segment[j] = BS
    /\ SegSetLocals(SegStepHere.st)
    /\ j' = j + 1
    /\ UNCHANGED <<text_segment, open_char, close_char, seg_pc, seg_ret, engineVars>>

\* Lines 60-69: any other character, the balance not back at zero.
SegPlainChar ==
    /\ SegIterating /\ ~escape_next_char /\ text_segment[j] # BS
    /\ ~SegStepHere.ret
    /\ SegSetLocals(SegStepHere.st)
    /\ j' = j + 1
    /\ UNCHANGED <<text_segment, open_char, close_char, seg_pc, seg_ret, engineVars>>

\* Mutant of SegReturn: the slice stops one character early.
SegReturnShort ==
    /\ SegIterating /\ SegStepHere.ret
    /\ SegSetLocals(SegStepHere.st)
    /\ seg_pc' = "returned"
    /\ seg_ret' = Some(SubSeq(text_segment, 1, j - 1))
    /\ UNCHANGED <<text_segment, open_char, close_char, j, engineVars>>

\* Lines 69-74: the balance is back at zero.
SegReturn ==
    /\ SegIterating /\ SegStepHere.ret
    /\ SegSetLocals(SegStepHere.st)
    /\ seg_pc' = "returned"
    /\ seg_ret' = Some(SubSeq(text_segment, 1, j))
    /\ UNCHANGED <<text_segment, open_char, close_char, j, engineVars>>

\* Line 76: the text ends first.
SegUnbalanced ==
    /\ seg_pc = "loop" /\ j > Len(text_segment)
    /\ seg_pc' = "returned" /\ seg_ret' = None
    /\ UNCHANGED <<text_segment, open_char, close_char, j,
                   balance, in_string, escape_next_char, engineVars>>

NextSeg ==
    \/ SegRejectStart
    \/ SegEnterLoop
    \/ SegEscapedChar
    \/ SegBackslash
    \/ SegPlainChar
    \/ SegReturn
    \/ SegUnbalanced

SpecSeg == InitSeg /\ [][NextSeg]_vars

\* ------------------------------------------------------------ properties

Brackets == { LB, RB, LS, RS }
Min(S) == CHOOSE x \in S : \A y \in S : x <= y

\* The balanced segment that starts at index n of the text, if any.
SegmentAt(n) ==
    IF text[n] = LB THEN ExtractBalancedSegment(SubSeq(text, n, Len(text)), LB, RB)
    ELSE IF text[n] = LS THEN ExtractBalancedSegment(SubSeq(text, n, Len(text)), LS, RS)
    ELSE None

Items(seg) == Decode(seg).val.v

\* seg decodes to an object that validates, or to an array of objects that
\* all validate.
Accepted(seg, mt) ==
    LET d == Decode(seg)
    IN /\ d.ok
       /\ \/ d.val.kind = "obj" /\ ModelValidate(mt, d.val).ok
          \/ /\ d.val.kind = "arr"
             /\ \A n \in 1..Len(d.val.v) :
                    d.val.v[n].kind = "obj" /\ ModelValidate(mt, d.val.v[n]).ok

\* The instances an accepted seg stands for.
ValuesOf(seg, mt) ==
    LET d == Decode(seg)
    IN IF d.val.kind = "obj" THEN << ModelValidate(mt, d.val).inst >>
       ELSE [n \in 1..Len(d.val.v) |-> ModelValidate(mt, d.val.v[n]).inst]

ValidAt(n) == SegmentAt(n).found /\ Accepted(SegmentAt(n).seg, model_type)
ValidStarts == { n \in 1..Len(text) : ValidAt(n) }
OpensUpTo(m) == { n \in 1..m : text[n] \in { LB, LS } }
SpanEnd(n) == n + Len(SegmentAt(n).seg) - 1

\* The call is over: it returned a Result or an exception left it.
Ended == pc \in { "done", "raised" }

\* C1: for every text and model the scan returns Success exactly when some
\* index starts a balanced segment that decodes and validates; the values
\* are those of the smallest such index, the scan stops there (no segment is
\* extracted past it), and without such an index the result is Failure.
C1_FirstValidCandidateWins ==
    Ended =>
        /\ pc = "done"
        /\ IF ValidStarts = {}
           THEN result.status = FAILURE
           ELSE LET m == Min(ValidStarts)
                IN /\ result.status = SUCCESS
                   /\ result.parsed_objects = ValuesOf(SegmentAt(m).seg, model_type)
                   /\ i = m
                   /\ n_segment = Cardinality(OpensUpTo(m))

\* An array of objects at index a of which an item does not validate.
ArrayWithInvalidItemAt(a) ==
    /\ text[a] = LS /\ SegmentAt(a).found
    /\ LET d == Decode(SegmentAt(a).seg)
       IN /\ d.ok /\ d.val.kind = "arr"
          /\ \A n \in 1..Len(d.val.v) : d.val.v[n].kind = "obj"
          /\ \E n \in 1..Len(d.val.v) : ~ModelValidate(model_type, d.val.v[n]).ok

NoBracketOutside(a) ==
    \A n \in 1..Len(text) : (n < a \/ n > SpanEnd(a)) => text[n] \notin Brackets

\* C2: when the only outermost bracketed literal of the text is an array of
\* objects of which an item fails validation, the result is Failure with no
\* parsed objects: the items that validate on their own are not returned.
C2_InvalidArrayGivesFailure ==
    (pc = "done" /\ \E a \in 1..Len(text) :
                        ArrayWithInvalidItemAt(a) /\ NoBracketOutside(a))
        => result = Result(FAILURE, <<>>)

\* C3: the function ends by returning a Result, never by an exception: from
\* an index that starts no validating candidate (no bracket, an unbalanced
\* segment, a decode error, a validation failure, an item that is no
\* object) the scan only moves on by one, and whatever the try body raises
\* on a candidate is an exception that one of the except clauses catches.
C3_FailuresAbsorbed ==
    /\ [](pc # "raised")
    /\ []((InLoop /\ Candidate.found /\ Outcome.kind # "return") =>
              (Outcome.kind = "raise" /\ Outcome.exc \in CaughtExceptions))
    /\ [][(pc = "loop" /\ i <= Len(text) /\ ~ValidAt(i))
              => (pc' = "loop" /\ i' = i + 1 /\ result' = NoResult)]_vars

\* A candidate at n that decodes to an array with an item that is no object.
NonObjectArrayAt(n) ==
    /\ text[n] = LS /\ SegmentAt(n).found
    /\ LET d == Decode(SegmentAt(n).seg)
       IN /\ d.ok /\ d.val.kind = "arr"
          /\ \E m \in 1..Len(d.val.v) : d.val.v[m].kind # "obj"

\* C4: a candidate that decodes to an array with an item that is no object
\* never gives the Success, and the scan goes on behind its first
\* character: if a candidate that starts later validates (an object inside
\* the array included), the result is a Success, and when the scan passed
\* the array it is the first such later candidate that is returned.
C4_NonObjectArrayRejected ==
    Ended =>
        \A n \in 1..Len(text) :
            NonObjectArrayAt(n) =>
                LET later == { m \in (n + 1)..Len(text) : ValidAt(m) }
                IN /\ ~(result.status = SUCCESS /\ i = n)
                   /\ later # {} => result.status = SUCCESS
                   /\ (later # {} /\ i > n) =>
                          /\ i = Min(later)
                          /\ result.parsed_objects = ValuesOf(SegmentAt(i).seg, model_type)
                   /\ (later = {} /\ i > n) => result.status = FAILURE

\* C5: a returned Result with status FAILURE has no parsed objects (and a
\* Result with status SUCCESS and no parsed objects is reachable: the witness).
C5_FailureHasNoObjects ==
    pc = "done" =>
        /\ result.status \in { SUCCESS, FAILURE }
        /\ result.status = FAILURE => result.parsed_objects = <<>>

\* A Success with no parsed objects.
C5_Witness ==
    pc = "done" /\ result.status = SUCCESS /\ result.parsed_objects = <<>>

\* C6: when the first accepted candidate decodes to an array, the result is
\* Success with one instance per item of the array, in the array's order;
\* for the empty array it has no values.
C6_ArrayValuesInOrder ==
    (pc = "done" /\ ValidStarts # {}) =>
        LET seg == SegmentAt(Min(ValidStarts)).seg
        IN Decode(seg).val.kind = "arr" =>
               /\ result.status = SUCCESS
               /\ Len(result.parsed_objects) = Len(Items(seg))
               /\ \A n \in 1..Len(Items(seg)) :
                      result.parsed_objects[n] = ModelValidate(model_type, Items(seg)[n]).inst
               /\ seg = <<LS, RS>> => result.parsed_objects = <<>>

\* A Success from an array of two items whose instances differ.
C6_Witness ==
    /\ pc = "done" /\ result.status = SUCCESS
    /\ Len(result.parsed_objects) = 2
    /\ result.parsed_objects[1] # result.parsed_objects[2]
    /\ Decode(SegmentAt(i).seg).val.kind = "arr"

\* C7: for a text that is empty or holds no brace and no bracket, no segment
\* is extracted, nothing is decoded or validated, and the result is Failure
\* with no parsed objects.
C7_NoBracketNoCandidate ==
    (\A n \in 1..Len(text) : text[n] \notin { LB, LS }) =>
        /\ n_segment = 0 /\ n_decode = 0 /\ n_validate = 0
        /\ pc # "raised"
        /\ pc = "done" => result = Result(FAILURE, <<>>)

\* A text of several characters, none a brace or bracket, scanned to its end.
C7_Witness ==
    /\ pc = "done" /\ Len(text) >= 2
    /\ \A n \in 1..Len(text) : text[n] \notin { LB, LS }
    /\ i = Len(text) + 1

\* C8: while the walker is inside a string a brace or bracket leaves the
\* balance as it is, and a double quote that follows an escaping backslash
\* leaves the in-string flag as it is; so from the opening brace of a
\* well-formed JSON object (brackets and escaped quotes in its strings or
\* not) the segment returned is the whole object, up to its closing brace.
C8_StringsKeepBalance ==
    /\ [][(SegIterating /\ in_string /\ text_segment[j] \in Brackets)
              => balance' = balance]_vars
    /\ [][(SegIterating /\ escape_next_char /\ text_segment[j] = QT)
              => in_string' = in_string]_vars
    /\ []((seg_pc = "returned" /\ SegStartsOpen /\ open_char = LB) =>
              \A e \in 1..Len(text_segment) :
                  (text_segment[e] = RB /\ Decode(SubSeq(text_segment, 1, e)).ok)
                      => seg_ret = Some(SubSeq(text_segment, 1, e)))

\* A whole object returned whose key holds a closing brace.
C8_Witness ==
    /\ seg_pc = "returned" /\ open_char = LB /\ seg_ret.found
    /\ Decode(seg_ret.seg).ok
    /\ \E n \in 1..Len(Items(seg_ret.seg)) :
           \E m \in 1..Len(Items(seg_ret.seg)[n].key) :
               Items(seg_ret.seg)[n].key[m] = RB

\* The character at n follows an escaping backslash.
RECURSIVE Escaped(_, _)
Escaped(t, n) == n > 1 /\ t[n - 1] = BS /\ ~Escaped(t, n - 1)

\* The character at n lies behind an odd number of unescaped double quotes.
InsideString(t, n) ==
    Cardinality({ m \in 1..(n - 1) : t[m] = QT /\ ~Escaped(t, m) }) % 2 = 1

Counted(t, n) == ~Escaped(t, n) /\ ~InsideString(t, n)

\* Occurrences of oc minus occurrences of cc in t[1..e], outside strings and
\* not escaped.
NetBalance(t, e, oc, cc) ==
    Cardinality({ n \in 1..e : t[n] = oc /\ Counted(t, n) })
        - Cardinality({ n \in 1..e : t[n] = cc /\ Counted(t, n) })

ZeroEnds ==
    { e \in 1..Len(text_segment) :
          NetBalance(text_segment, e, open_char, close_char) = 0 }

\* C9: for a text that starts with open_char the walker returns the shortest
\* prefix at whose end the count of open_char minus close_char, outside
\* strings and not escaped, is zero; the prefix starts with open_char and
\* ends with close_char; None is returned exactly when no prefix has count
\* zero.  The counter is never negative and every step has a successor.
C9_ShortestBalancedPrefix ==
    /\ balance >= 0
    /\ seg_pc \in { "entry", "loop" } => ENABLED NextSeg
    /\ seg_pc = "loop" =>
           balance = NetBalance(text_segment, j - 1, open_char, close_char)
    /\ (seg_pc = "returned" /\ SegStartsOpen) =>
           IF ZeroEnds = {} THEN seg_ret = None
           ELSE /\ seg_ret = Some(SubSeq(text_segment, 1, Min(ZeroEnds)))
                /\ seg_ret.seg[1] = open_char
                /\ seg_ret.seg[Len(seg_ret.seg)] = close_char

\* A prefix returned that holds a close_char inside a string or behind a
\* backslash, before the one that ends it.
C9_Witness ==
    /\ seg_pc = "returned" /\ seg_ret.found
    /\ \E n \in 1..Len(seg_ret.seg) :
           text_segment[n] = close_char /\ ~Counted(text_segment, n)

\* The scan that resumes behind a candidate that was balanced but rejected:
\* its Result, the index of the candidate that ends it (0 when the text is
\* exhausted) and the exception that leaves it.
RECURSIVE SkipScan(_, _, _)
SkipScan(t, mt, n) ==
    IF n > Len(t) THEN [res |-> Result(FAILURE, <<>>), at |-> 0, exc |-> "none"]
    ELSE LET c == CandidateAt(t, n)
         IN IF ~c.found THEN SkipScan(t, mt, n + 1)
            ELSE LET o == TryCandidate(c.seg, mt)
                 IN IF o.kind = "return"
                    THEN [res |-> Result(SUCCESS, o.objs), at |-> n, exc |-> "none"]
                    ELSE IF o.exc \in CaughtExceptions
                    THEN SkipScan(t, mt, n + Len(c.seg))
                    ELSE [res |-> NoResult, at |-> n, exc |-> o.exc]

\* How extract_json_from_text ended, in the same form.
ScanChoice ==
    [res |-> result,
     at |-> IF result.status = FAILURE THEN 0 ELSE i,
     exc |-> exception]

EndsScanAt(n) ==
    /\ SegmentAt(n).found
    /\ LET o == TryCandidate(SegmentAt(n).seg, model_type)
       IN o.kind = "return" \/ (o.kind = "raise" /\ o.exc \notin CaughtExceptions)
EndStarts == { n \in 1..Len(text) : EndsScanAt(n) }

\* No balanced candidate that starts before the first candidate that ends
\* the scan reaches up to it.
FirstEndNotEnclosed ==
    EndStarts # {} =>
        \A n \in 1..(Min(EndStarts) - 1) :
            SegmentAt(n).found => SpanEnd(n) < Min(EndStarts)

BracketFreePrefix(k) == \A n \in 1..k : text[n] \notin OpenChars

\* C11: the candidate at index i is the one found in text[k:] alone, for
\* every k before i (no character before i bears on it); so for every
\* prefix of the text without brace and bracket (quotes, backslashes, a
\* trailing backslash or an unclosed quote included) and the non-empty rest
\* t behind it, the call on the text ends as the call on t does: the same
\* status and values, or the same exception.
C11_PrefixIndependent ==
    /\ InLoop =>
           \A k \in 0..(i - 1) :
               Candidate = CandidateAt(SubSeq(text, k + 1, Len(text)), i - k)
    /\ Ended =>
           \A k \in 0..(Len(text) - 1) :
               BracketFreePrefix(k) =>
                   ExtractJsonFromText(SubSeq(text, k + 1, Len(text)), model_type)
                       = [res |-> result, exc |-> exception]

\* A Success from a candidate right behind a quote or a backslash that ends
\* a prefix without brace and bracket.
C11_Witness ==
    /\ pc = "done" /\ result.status = SUCCESS /\ result.parsed_objects # <<>>
    /\ i >= 2 /\ BracketFreePrefix(i - 1)
    /\ text[i - 1] \in { QT, BS }

====
